---- MODULE Spec2Model ----
(***************************************************************************)
(* A model of the indicate adapter (indicate/src/adapter.rs) and of the   *)
(* advisory client (indicate/src/advisory.rs): the dependency graph index, *)
(* the lazily created backend clients, the URL -> repository resolver and  *)
(* the four operations the query engine calls on the adapter.              *)
(***************************************************************************)
EXTENDS Integers, Sequences, FiniteSets, TLC

\* ------------------------------------------------------------------ bounds

\* Number of packages of a dependency snapshot.
MaxPkgs == 3
\* Longest direct-dependency list of a resolved node.
MaxDeps == 2
\* Longest input stream of contexts the engine hands to one operation.
MaxCtx == 2
\* Number of advisories in the advisory database.
MaxAdvisories == 2

\* ----------------------------------------------------------------- helpers

\* Option::None
None == "None"

Range(s) == {s[i] : i \in 1..Len(s)}

Min(a, b) == IF a < b THEN a ELSE b

RECURSIVE Insert(_, _)
Insert(x, s) ==
    IF s = <<>> THEN <<x>>
    ELSE IF x <= Head(s) THEN <<x>> \o s
    ELSE <<Head(s)>> \o Insert(x, Tail(s))

\* Vec::sort on a list of package ids (ids are ordered as the integers are)
RECURSIVE Sort(_)
Sort(s) == IF s = <<>> THEN <<>> ELSE Insert(Head(s), Sort(Tail(s)))

\* Sequences over S of length n, without repetition
RECURSIVE DistinctSeqs(_, _)
DistinctSeqs(S, n) ==
    IF n = 0 THEN {<<>>}
    ELSE {s \in {<<x>> \o t : x \in S, t \in DistinctSeqs(S, n - 1)} :
             Cardinality(Range(s)) = Len(s)}

\* Sequences over S of length at most n
RECURSIVE SeqsUpTo(_, _)
SeqsUpTo(S, n) ==
    IF n = 0 THEN {<<>>}
    ELSE SeqsUpTo(S, n - 1) \cup {<<x>> \o t : x \in S, t \in {u \in SeqsUpTo(S, n - 1) : Len(u) = n - 1}}

\* Iterator::flatten over a sequence of sequences
RECURSIVE Flatten(_)
Flatten(ss) == IF ss = <<>> THEN <<>> ELSE Head(ss) \o Flatten(Tail(ss))

\* Iterator::take
Take(s, k) == SubSeq(s, 1, Min(k, Len(s)))

\* ------------------------------------------------------------------- state

VARIABLES
    cfg_test,             \* whether the build is a cfg(test) build
    metadata,             \* the dependency snapshot (cargo_metadata::Metadata)
    packages,             \* IndicateAdapter.packages: id -> Package
    direct_dependencies,  \* IndicateAdapter.direct_dependencies: id -> list of ids
    remote_db,            \* the advisories a fetched advisory database holds
    advisory_client,      \* IndicateAdapter.advisory_client: a OnceCell
    geiger_client,        \* IndicateAdapter.geiger_client: a OnceCell
    gh_client,            \* IndicateAdapter.gh_client: the client's caches
    gh_borrow,            \* the borrow state of the RefCell around the client: how many
                          \* RefMut guards are alive
    holder,               \* the closure call that is between its borrow_mut and the
                          \* drop of its guard, or NoCall
    created,              \* how many times each backend client has been created
    failed,               \* how many times the creation of each backend client has failed
    iters,                \* the lazy sequences returned to the engine, not yet
                          \* exhausted: the engine resolves one operation at a time,
                          \* and pulls or drops its sequence before the next, except
                          \* that it may resolve the owner edge on the repositories of
                          \* a repository sequence it has not exhausted
    frontier,             \* the vertices most recently yielded to the engine
    last,                 \* what the most recent step did and returned
    status                \* "running", or "panicked" once a panic has aborted the query

vars == <<cfg_test, metadata, packages, direct_dependencies, remote_db,
          advisory_client, geiger_client, gh_client, gh_borrow, holder, created, failed,
          iters, frontier, last, status>>

indexVars == <<cfg_test, metadata, packages, direct_dependencies, remote_db>>
clientVars == <<advisory_client, geiger_client, gh_client, gh_borrow, holder, created, failed>>

\* ------------------------------------------------------- dependency snapshot

PkgIds == 1..MaxPkgs

PkgName(id) ==
    CASE id = 1 -> "app"
      [] id = 2 -> "libfoo"
      [] id = 3 -> "libfoo"
      [] OTHER -> "libbar"

PkgVersion(id) ==
    CASE id = 1 -> "1.0.0"
      [] id = 2 -> "2.1.0"
      [] id = 3 -> "3.0.0"
      [] OTHER -> "0.1.0"

PkgLicense(id) == IF id % 2 = 1 THEN "MIT" ELSE None

\* The repository URLs a manifest may declare
Urls ==
    { "https://github.com/acme/libfoo",      \* a GitHub repository
      "https://github.com/acme",             \* host github.com, parsed without an owner
      "https://www.github.com/acme/libfoo",  \* contains github.com, another host
      "github.com:::",                       \* contains github.com, does not parse
      "https://gitlab.com/acme/libfoo" }     \* does not contain github.com

PkgRepository(id) ==
    CASE id = 1 -> None
      [] id = 2 -> "https://github.com/acme/libfoo"
      [] id = 3 -> "https://gitlab.com/acme/libfoo"
      [] OTHER -> "https://www.github.com/acme/libfoo"

\* cargo_metadata::Package, with the fields the adapter reads
Package(id, repository) ==
    [id |-> id, name |-> PkgName(id), version |-> PkgVersion(id),
     license |-> PkgLicense(id), repository |-> repository]

\* The ids after id in cyclic order: the order a node lists its dependencies in
RECURSIVE CyclicAfter(_, _)
CyclicAfter(id, k) ==
    IF k = 0 THEN <<>>
    ELSE CyclicAfter(id, k - 1) \o <<((id + k - 1) % MaxPkgs) + 1>>

Ascending == [i \in 1..MaxPkgs |-> i]
Descending == [i \in 1..MaxPkgs |-> MaxPkgs + 1 - i]

\* Option<PackageId>::None for the root of a snapshot
NoRoot == 0

\* A snapshot: its packages, its resolved nodes in resolution order, and its root
Metadata(order, lens, root, repos) ==
    [packages |-> {Package(id, repos[id]) : id \in PkgIds},
     nodes |-> [i \in 1..MaxPkgs |->
                  [id |-> order[i], dependencies |-> CyclicAfter(order[i], lens[order[i]])]],
     root |-> root]

\* The snapshots cargo metadata can produce for MaxPkgs packages: one node per
\* package, no node twice, each dependency list without repetition and without the
\* node itself, and a root that is a node, or none (a virtual workspace)
Snapshots ==
    {Metadata(order, lens, root, [id \in PkgIds |-> PkgRepository(id)]) :
        order \in {Ascending, Descending},
        lens \in [PkgIds -> 0..Min(MaxDeps, MaxPkgs - 1)],
        root \in PkgIds \cup {NoRoot}}

\* ------------------------------------------------------------------ vertices

\* A context whose active vertex is None
NoVertex == [kind |-> "None"]

VPackage(p) == [kind |-> "Package", package |-> p]
VRepository(url) == [kind |-> "Repository", url |-> url]
VGitHubRepository(fr) == [kind |-> "GitHubRepository", repo |-> fr]
VGitHubUser(u) == [kind |-> "GitHubUser", user |-> u]
VAdvisory(a) == [kind |-> "Advisory", advisory |-> a]
VGeigerUnsafety(u) == [kind |-> "GeigerUnsafety", unsafety |-> u]
VAffectedFunctionVersions(f) == [kind |-> "AffectedFunctionVersions", function |-> f]

\* What a call returns: the vertices it yields, or a panic
Yielded(vs) == [panic |-> FALSE, vertices |-> vs]
Panicked == [panic |-> TRUE, vertices |-> <<>>]

\* EdgeParameters; a parameter an edge does not take is never read
NoParameters ==
    [includeRoot |-> FALSE, includeWithdrawn |-> FALSE, arch |-> None, os |-> None,
     minSeverity |-> None]

\* --------------------------------------------------- dependency graph index

\* The package of a set of packages with the given id
PackageWithId(ps, id) == CHOOSE p \in ps : p.id = id

\* The dependency list of the last node of a node list with the given id
LastNodeWithId(nodes, id) ==
    nodes[CHOOSE i \in 1..Len(nodes) :
            /\ nodes[i].id = id
            /\ \A j \in (i + 1)..Len(nodes) : nodes[j].id # id].dependencies

\* parse_metadata recording no dependency list for a node without dependencies
parse_metadata_skipping_leaves(md) ==
    [packages |-> [id \in {p.id : p \in md.packages} |-> PackageWithId(md.packages, id)],
     direct_dependencies |->
        [id \in {md.nodes[i].id : i \in {j \in 1..Len(md.nodes) : md.nodes[j].dependencies # <<>>}}
            |-> LastNodeWithId(md.nodes, id)]]

\* parse_metadata leaving the root package out of the packages map
parse_metadata_without_root(md) ==
    [packages |-> [id \in {p.id : p \in md.packages} \ {md.root} |->
                      PackageWithId(md.packages, id)],
     direct_dependencies |->
        [id \in {md.nodes[i].id : i \in 1..Len(md.nodes)} |-> LastNodeWithId(md.nodes, id)]]

parse_metadata(md) ==
    [packages |-> [id \in {p.id : p \in md.packages} |-> PackageWithId(md.packages, id)],
     direct_dependencies |->
        [id \in {md.nodes[i].id : i \in 1..Len(md.nodes)} |-> LastNodeWithId(md.nodes, id)]]

\* ------------------------------------------------------- starting vertices

root_package(md) ==
    IF md.root = NoRoot \/ ~(\E p \in md.packages : p.id = md.root)
    THEN Panicked
    ELSE Yielded(<<VPackage(PackageWithId(md.packages, md.root))>>)

\* dependencies with the root never removed
dependencies_keep_root(md, pk, include_root, test) ==
    LET all == [i \in 1..Len(md.nodes) |-> md.nodes[i].id]
        ids == IF test THEN Sort(all) ELSE all
    IN  IF \E i \in 1..Len(ids) : ids[i] \notin DOMAIN pk
        THEN Panicked
        ELSE Yielded([i \in 1..Len(ids) |-> VPackage(pk[ids[i]])])

dependencies(md, pk, include_root, test) ==
    LET all == [i \in 1..Len(md.nodes) |-> md.nodes[i].id]
        NotRoot(pid) == pid # md.root
        kept == IF include_root THEN all ELSE SelectSeq(all, NotRoot)
        ids == IF test THEN Sort(kept) ELSE kept
    IN  IF ~include_root /\ md.root = NoRoot
        THEN Panicked
        ELSE IF \E i \in 1..Len(ids) : ids[i] \notin DOMAIN pk
        THEN Panicked
        ELSE Yielded([i \in 1..Len(ids) |-> VPackage(pk[ids[i]])])

\* The starting edges a query may name; "Undeclared" stands for any other name
StartEdges == {"RootPackage", "Dependencies", "Undeclared"}

\* resolve_starting_vertices answering an edge it does not match with no vertex
resolve_starting_vertices_lenient(md, pk, edge_name, parameters, test) ==
    CASE edge_name = "RootPackage" -> root_package(md)
      [] edge_name = "Dependencies" -> dependencies(md, pk, parameters.includeRoot, test)
      [] OTHER -> Yielded(<<>>)

resolve_starting_vertices(md, pk, edge_name, parameters, test) ==
    CASE edge_name = "RootPackage" -> root_package(md)
      [] edge_name = "Dependencies" -> dependencies(md, pk, parameters.includeRoot, test)
      [] OTHER -> Panicked

\* ------------------------------------------------------ (Package, dependencies)

\* get_dependencies yielding the list back to front
get_dependencies_reversed(pk, dd, package_id) ==
    IF package_id \notin DOMAIN dd
    THEN Panicked
    ELSE LET ids == dd[package_id] IN
         IF \E i \in 1..Len(ids) : ids[i] \notin DOMAIN pk
         THEN Panicked
         ELSE Yielded([i \in 1..Len(ids) |-> VPackage(pk[ids[Len(ids) + 1 - i]])])

get_dependencies(pk, dd, package_id) ==
    IF package_id \notin DOMAIN dd
    THEN Panicked
    ELSE LET ids == dd[package_id] IN
         IF \E i \in 1..Len(ids) : ids[i] \notin DOMAIN pk
         THEN Panicked
         ELSE Yielded([i \in 1..Len(ids) |-> VPackage(pk[ids[i]])])


\* -------------------------------------------------------- advisory database

\* cvss::Severity, in its order
Severities == {"none", "low", "medium", "high", "critical"}

SeverityRank(sev) ==
    CASE sev = "none" -> 0
      [] sev = "low" -> 1
      [] sev = "medium" -> 2
      [] sev = "high" -> 3
      [] OTHER -> 4

\* platforms::Arch and platforms::OS: the names from_str accepts
Archs == {"x86_64", "arm"}
OSes == {"linux", "windows"}

\* The package an advisory of the database is about
AdvisoryPackage(i) == IF i % 3 = 0 THEN "app" ELSE "libfoo"

\* rustsec::advisory::Affected
Affected(arch, os) ==
    [arch |-> arch, os |-> os,
     functions |-> <<[functionPath |-> "libfoo::parse", versions |-> <<"< 2.0.0">>]>>]

\* rustsec::Advisory, with the fields the queries and the adapter read; withdrawn
\* and severity are an Option, affected is an Option held as a list of at most one
Advisory(i, withdrawn, severity, affected) ==
    [id |-> i, package |-> AdvisoryPackage(i), withdrawn |-> withdrawn,
     severity |-> severity, affected |-> affected]

AdvisoriesWithId(i) ==
    {Advisory(i, withdrawn, severity, affected) :
        withdrawn \in {None, "2023-01-01"},
        severity \in {None, "medium", "critical"},
        affected \in {<<>>, <<Affected(<<"x86_64">>, <<"linux">>)>>}}

\* The advisory databases of MaxAdvisories advisories
Databases ==
    {db \in [1..MaxAdvisories -> UNION {AdvisoriesWithId(i) : i \in 1..MaxAdvisories}] :
        \A i \in 1..MaxAdvisories : db[i].id = i}

\* rustsec::database::Query::new(): a query that constrains nothing
Query_new ==
    [package_name |-> None, target_arch |-> None, target_os |-> None,
     severity |-> None, withdrawn |-> None]

\* rustsec::database::Query::matches
\* Query matching with the severity of the query as an exclusive floor
Query_matches_above(query, advisory) ==
    /\ query.package_name # None => advisory.package = query.package_name
    /\ (query.severity # None /\ advisory.severity # None)
          => SeverityRank(advisory.severity) > SeverityRank(query.severity)
    /\ (advisory.affected # <<>> /\ query.target_arch # None)
          => \/ advisory.affected[1].arch = <<>>
             \/ query.target_arch \in Range(advisory.affected[1].arch)
    /\ (advisory.affected # <<>> /\ query.target_os # None)
          => \/ advisory.affected[1].os = <<>>
             \/ query.target_os \in Range(advisory.affected[1].os)
    /\ query.withdrawn = "true" => advisory.withdrawn # None
    /\ query.withdrawn = "false" => advisory.withdrawn = None

Query_matches(query, advisory) ==
    /\ query.package_name # None => advisory.package = query.package_name
    /\ (query.severity # None /\ advisory.severity # None)
          => SeverityRank(advisory.severity) >= SeverityRank(query.severity)
    /\ (advisory.affected # <<>> /\ query.target_arch # None)
          => \/ advisory.affected[1].arch = <<>>
             \/ query.target_arch \in Range(advisory.affected[1].arch)
    /\ (advisory.affected # <<>> /\ query.target_os # None)
          => \/ advisory.affected[1].os = <<>>
             \/ query.target_os \in Range(advisory.affected[1].os)
    /\ query.withdrawn = "true" => advisory.withdrawn # None
    /\ query.withdrawn = "false" => advisory.withdrawn = None

\* rustsec::Database::query
Database_query(db, query) ==
    LET Matches(a) == Query_matches(query, a) IN SelectSeq(db, Matches)

\* all_advisories_for_package returning the withdrawn advisories alone when they
\* are to be included
all_advisories_withdrawn_alone(db, name, include_withdrawn, arch, os, min_severity) ==
    LET query == [Query_new EXCEPT !.package_name = name, !.target_arch = arch,
                                   !.target_os = os, !.severity = min_severity]
    IN  IF include_withdrawn
        THEN Database_query(db, [query EXCEPT !.withdrawn = "true"])
        ELSE Database_query(db, query)

all_advisories_for_package(db, name, include_withdrawn, arch, os, min_severity) ==
    LET query == [Query_new EXCEPT !.package_name = name, !.target_arch = arch,
                                   !.target_os = os, !.severity = min_severity]
        res == Database_query(db, query)
    IN  IF include_withdrawn
        THEN res \o Database_query(db, [query EXCEPT !.withdrawn = "true"])
        ELSE res

\* The closure of (Package, advisoryHistory): the parameters are parsed, then the
\* client is queried by the package's name
advisory_history(client, package, parameters) ==
    IF \/ parameters.arch \notin Archs \cup {None}
       \/ parameters.os \notin OSes \cup {None}
       \/ parameters.minSeverity \notin Severities \cup {None}
    THEN Panicked
    ELSE LET res == all_advisories_for_package(client.db, package.name,
                        parameters.includeWithdrawn, parameters.arch, parameters.os,
                        parameters.minSeverity)
         IN  Yielded([i \in 1..Len(res) |-> VAdvisory(res[i])])

\* The closure of (Advisory, affectedFunctions) expecting an affected section
affected_functions_expecting(advisory) ==
    IF advisory.affected = <<>> THEN Panicked
    ELSE LET functions == advisory.affected[1].functions
         IN  Yielded([i \in 1..Len(functions) |-> VAffectedFunctionVersions(functions[i])])

\* The closure of (Advisory, affectedFunctions)
affected_functions(advisory) ==
    IF advisory.affected = <<>> THEN Yielded(<<>>)
    ELSE LET functions == advisory.affected[1].functions
         IN  Yielded([i \in 1..Len(functions) |-> VAffectedFunctionVersions(functions[i])])

\* ------------------------------------------------------------ backend clients

\* OnceCell::get_or_init: the value of a full cell, else the value created, which
\* fills the cell; a creation that fails panics and leaves the cell empty
get_or_init(cell, value, ok) ==
    IF cell # <<>> THEN [cell |-> cell, created |-> FALSE, panic |-> FALSE]
    ELSE IF ok THEN [cell |-> <<value>>, created |-> TRUE, panic |-> FALSE]
    ELSE [cell |-> cell, created |-> FALSE, panic |-> TRUE]

\* advisory_client creating a client at every call
advisory_client_not_memoized(cell, db, ok) ==
    IF ok THEN [cell |-> <<[db |-> db]>>, created |-> TRUE, panic |-> FALSE]
    ELSE [cell |-> cell, created |-> FALSE, panic |-> TRUE]

\* IndicateAdapter::advisory_client; ok: whether AdvisoryClient::new() succeeds
advisory_client_get(cell, db, ok) == get_or_init(cell, [db |-> db], ok)

\* The (name, version) pairs of the snapshot's packages
NameVersions(md) == {<<p.name, p.version>> : p \in md.packages}

\* The reports a GeigerClient may hold for a snapshot: one of every package, or of
\* every package but one
GeigerReports(md) ==
    {NameVersions(md)} \cup {NameVersions(md) \ {nv} : nv \in {<<PkgName(1), PkgVersion(1)>>}}

\* IndicateAdapter::geiger_client; ok: whether GeigerClient::new() succeeds
geiger_client_get(cell, reports, ok) == get_or_init(cell, [reports |-> reports], ok)

\* GeigerClient::unsafety: the record of a (name, version), if the client holds one
GeigerClient_unsafety(client, gid) ==
    IF gid \in client.reports THEN <<[name |-> gid[1], version |-> gid[2]]>> ELSE <<>>

\* The closure of (Package, geiger) answering a package without record with no
\* neighbor
geiger_unsafety_lenient(client, package) ==
    LET unsafety == GeigerClient_unsafety(client, <<package.name, package.version>>)
    IN  IF unsafety = <<>> THEN Yielded(<<>>)
        ELSE Yielded(<<VGeigerUnsafety(unsafety[1])>>)

\* The closure of (Package, geiger)
geiger_unsafety(client, package) ==
    LET unsafety == GeigerClient_unsafety(client, <<package.name, package.version>>)
    IN  IF unsafety = <<>> THEN Panicked
        ELSE Yielded(<<VGeigerUnsafety(unsafety[1])>>)

\* GitHubRepositoryId
GitHubRepositoryId(owner, name) == [owner |-> owner, name |-> name]

\* What the GitHub API may answer for a repository: nothing, or the repository, with
\* or without an owner
RepositoryAnswers(id) ==
    {<<>>} \cup {<<[name |-> id.name, owner |-> o]>> : o \in {None, id.owner}}

\* What the GitHub API may answer for a user: nothing, or the user
UserAnswers(login) == {<<>>, <<[login |-> login]>>}

\* GitHubClient::get_repository: the cached repository of the id, else the API's
\* answer, cached when it is a repository
GitHubClient_get_repository(gh, id, answer) ==
    IF \E e \in gh.repo_cache : e.id = id
    THEN [found |-> <<(CHOOSE e \in gh.repo_cache : e.id = id).repo>>, gh |-> gh]
    ELSE [found |-> answer,
          gh |-> IF answer = <<>> THEN gh
                 ELSE [gh EXCEPT !.repo_cache = @ \cup {[id |-> id, repo |-> answer[1]]}]]

\* GitHubClient::get_public_user: the cached user of the login, else the API's answer,
\* cached when it is a user
GitHubClient_get_public_user(gh, login, answer) ==
    IF \E u \in gh.user_cache : u.login = login
    THEN [found |-> <<CHOOSE u \in gh.user_cache : u.login = login>>, gh |-> gh]
    ELSE [found |-> answer,
          gh |-> IF answer = <<>> THEN gh
                 ELSE [gh EXCEPT !.user_cache = @ \cup {answer[1]}]]

\* ------------------------------------------------------ URL -> repository

\* The URLs of Urls for which url.contains("github.com") holds
UrlsContainingGitHub == Urls \ {"https://gitlab.com/acme/libfoo"}

\* GitUrl::parse is a library function: the results it may return, an error or a
\* GitUrl with a host, an optional owner and a name
Unparsed == [ok |-> FALSE, host |-> None, owner |-> None, name |-> ""]
GitUrl(host, owner, name) == [ok |-> TRUE, host |-> host, owner |-> owner, name |-> name]

GitUrlResults ==
    {Unparsed} \cup
    {GitUrl(host, owner, "libfoo") :
        host \in {None, "github.com", "www.github.com"}, owner \in {None, "acme"}}

\* What resolving a URL did: the vertex or the panic, the client after it, the
\* result of the parse if the URL was parsed, the calls of get_repository and what
\* they found
Resolved(vertices, gh, parsed, calls, found) ==
    [panic |-> FALSE, vertices |-> vertices, gh |-> gh, parsed |-> parsed,
     calls |-> calls, found |-> found]

ResolvePanicked(gh, parsed) ==
    [panic |-> TRUE, vertices |-> <<>>, gh |-> gh, parsed |-> parsed,
     calls |-> <<>>, found |-> <<>>]

\* get_repository_from_url looking up every URL that parses, whatever its host
get_repository_from_url_any_host(url, gh, parsed, answer) ==
    IF ~parsed.ok THEN Resolved(<<VRepository(url)>>, gh, parsed, <<>>, <<>>)
    ELSE IF parsed.owner = None THEN ResolvePanicked(gh, parsed)
    ELSE LET id == GitHubRepositoryId(parsed.owner, parsed.name)
             got == GitHubClient_get_repository(gh, id, answer)
         IN  IF got.found # <<>>
             THEN Resolved(<<VGitHubRepository(got.found[1])>>, got.gh, parsed, <<id>>, got.found)
             ELSE Resolved(<<VRepository(url)>>, got.gh, parsed, <<id>>, got.found)

\* get_repository_from_url coercing a repository it could not retrieve to the rich
\* variant all the same
get_repository_from_url_always_rich(url, gh, parsed, answer) ==
    IF url \notin UrlsContainingGitHub THEN Resolved(<<VRepository(url)>>, gh, Unparsed, <<>>, <<>>)
    ELSE IF ~parsed.ok THEN Resolved(<<VRepository(url)>>, gh, parsed, <<>>, <<>>)
    ELSE IF parsed.host # "github.com" THEN Resolved(<<VRepository(url)>>, gh, parsed, <<>>, <<>>)
    ELSE IF parsed.owner = None THEN ResolvePanicked(gh, parsed)
    ELSE LET id == GitHubRepositoryId(parsed.owner, parsed.name)
             got == GitHubClient_get_repository(gh, id, answer)
         IN  Resolved(<<VGitHubRepository([name |-> parsed.name, owner |-> None])>>,
                      got.gh, parsed, <<id>>, got.found)

\* parsed: what GitUrl::parse returns for url; answer: what the GitHub API answers
get_repository_from_url(url, gh, parsed, answer) ==
    IF url \notin UrlsContainingGitHub THEN Resolved(<<VRepository(url)>>, gh, Unparsed, <<>>, <<>>)
    ELSE IF ~parsed.ok THEN Resolved(<<VRepository(url)>>, gh, parsed, <<>>, <<>>)
    ELSE IF parsed.host # "github.com" THEN Resolved(<<VRepository(url)>>, gh, parsed, <<>>, <<>>)
    ELSE IF parsed.owner = None THEN ResolvePanicked(gh, parsed)
    ELSE LET id == GitHubRepositoryId(parsed.owner, parsed.name)
             got == GitHubClient_get_repository(gh, id, answer)
         IN  IF got.found # <<>>
             THEN Resolved(<<VGitHubRepository(got.found[1])>>, got.gh, parsed, <<id>>, got.found)
             ELSE Resolved(<<VRepository(url)>>, got.gh, parsed, <<id>>, got.found)

\* ------------------------------------------------------------------ coercion

\* Vertex::as_repository().is_some()
is_repository(v) == v.kind = "Repository"

\* Vertex::as_git_hub_repository().is_some()
is_git_hub_repository(v) == v.kind = "GitHubRepository"

\* The target types a query may name; "Package" stands for any unsupported one
CoercionTargets == {"Repository", "GitHubRepository", "Package"}

Coerced(b) == [panic |-> FALSE, can_coerce |-> b]
CoercionPanicked == [panic |-> TRUE, can_coerce |-> FALSE]

\* The closure of resolve_coercion with both targets tested by as_repository
resolve_coercion_same_test(ctx, type_name, coerce_to_type) ==
    IF ctx = NoVertex THEN Coerced(FALSE)
    ELSE CASE coerce_to_type = "Repository" -> Coerced(is_repository(ctx))
           [] coerce_to_type = "GitHubRepository" -> Coerced(is_repository(ctx))
           [] OTHER -> CoercionPanicked

\* The closure of resolve_coercion failing for an unsupported target before it
\* looks at the context
resolve_coercion_target_first(ctx, type_name, coerce_to_type) ==
    IF coerce_to_type \notin {"Repository", "GitHubRepository"} THEN CoercionPanicked
    ELSE IF ctx = NoVertex THEN Coerced(FALSE)
    ELSE IF coerce_to_type = "Repository" THEN Coerced(is_repository(ctx))
    ELSE Coerced(is_git_hub_repository(ctx))

\* The closure resolve_coercion maps over its contexts
resolve_coercion(ctx, type_name, coerce_to_type) ==
    IF ctx = NoVertex THEN Coerced(FALSE)
    ELSE CASE coerce_to_type = "Repository" -> Coerced(is_repository(ctx))
           [] coerce_to_type = "GitHubRepository" -> Coerced(is_git_hub_repository(ctx))
           [] OTHER -> CoercionPanicked

\* ----------------------------------------------------------------- properties

\* FieldValue
String(str) == <<"String", str>>
Null == <<"Null">>

\* The (type, property) pairs resolve_property matches
Properties ==
    ({"Package"} \X {"id", "name", "version", "license"})
    \cup ({"Webpage", "Repository", "GitHubRepository"} \X {"url"})
    \cup ({"GitHubRepository"} \X {"name", "starsCount", "forksCount", "openIssuesCount",
                                   "hasIssues", "archived", "fork"})
    \cup ({"GitHubUser"} \X {"username", "unixCreatedAt", "followersCount", "email"})
    \cup ({"Advisory"} \X {"id", "title", "description", "unixDateReported",
                           "unixDateWithdrawn", "affectedArch", "affectedOs",
                           "patchedVersions", "unaffectedVersions", "severity"})
    \cup ({"AffectedFunctionVersions"} \X {"functionPath", "versions"})
    \cup ({"GeigerUnsafety"} \X {"forbidsUnsafe"})
    \cup ({"GeigerCount"} \X {"safe", "unsafe", "total", "percentageUnsafe"})

\* The resolvers of the properties of a Package
package_property(package, property_name) ==
    CASE property_name = "id" -> String(ToString(package.id))
      [] property_name = "name" -> String(package.name)
      [] property_name = "version" -> String(package.version)
      [] property_name = "license" ->
            IF package.license = None THEN Null ELSE String(package.license)

\* FieldValue::Int64 and FieldValue::List
Int64(n) == <<"Int64", n>>
List(strs) == <<"List", strs>>

\* The unix timestamp of the dates of the model at 00:00 UTC
UnixTimestamp(date) ==
    CASE date = "2023-01-01" -> 1672531200

\* The optional properties of an Advisory, an absent severity read as "none"
advisory_property_defaulting(advisory, property_name) ==
    CASE property_name = "unixDateWithdrawn" ->
            IF advisory.withdrawn = None THEN Null
            ELSE Int64(UnixTimestamp(advisory.withdrawn))
      [] property_name = "affectedArch" ->
            IF advisory.affected = <<>> THEN Null ELSE List(advisory.affected[1].arch)
      [] property_name = "affectedOs" ->
            IF advisory.affected = <<>> THEN Null ELSE List(advisory.affected[1].os)
      [] property_name = "severity" ->
            IF advisory.severity = None THEN String("none") ELSE String(advisory.severity)

\* The resolvers of the optional properties of an Advisory
advisory_property(advisory, property_name) ==
    CASE property_name = "unixDateWithdrawn" ->
            IF advisory.withdrawn = None THEN Null
            ELSE Int64(UnixTimestamp(advisory.withdrawn))
      [] property_name = "affectedArch" ->
            IF advisory.affected = <<>> THEN Null ELSE List(advisory.affected[1].arch)
      [] property_name = "affectedOs" ->
            IF advisory.affected = <<>> THEN Null ELSE List(advisory.affected[1].os)
      [] property_name = "severity" ->
            IF advisory.severity = None THEN Null ELSE String(advisory.severity)

\* ------------------------------------------------------------------- engine

\* What a step did: the operation, the context it resolved, what it returned, the
\* clients it created, the result of GitUrl::parse if it parsed a URL, the calls of
\* the repository-info client it made and what they found
Step(op, type_name, name, parameters) ==
    [op |-> op, type_name |-> type_name, name |-> name, parameters |-> parameters,
     ctx |-> NoVertex, vertices |-> <<>>, value |-> <<>>, can_coerce |-> FALSE,
     created |-> {}, parsed |-> Unparsed, calls |-> <<>>, found |-> <<>>,
     panic |-> FALSE]

NoStep == Step("none", "", "", NoParameters)

\* No closure call holds a guard of the client
NoCall == [i |-> 0, parsed |-> Unparsed]

\* A lazy sequence the adapter has returned: the operation, and the contexts of its
\* input stream it has not resolved yet
Iter(op, type_name, name, parameters, contexts) ==
    [op |-> op, type_name |-> type_name, name |-> name, parameters |-> parameters,
     contexts |-> contexts]

\* The input streams the engine may hand to an operation on vertices of the given
\* kinds: vertices it was last yielded, in order, possibly after a context that has
\* no active vertex
EngineContexts(kinds) ==
    LET OfKind(v) == v.kind \in kinds
        typed == SelectSeq(frontier, OfKind)
    IN  {c \in {pre \o Take(typed, k) : pre \in {<<>>, <<NoVertex>>}, k \in 0..MaxCtx} :
            Len(c) <= MaxCtx}

Remove(s, i) == SubSeq(s, 1, i - 1) \o SubSeq(s, i + 1, Len(s))

\* A sequence that ends after its first outcome
Advance_ending(i) == Remove(iters, i)

\* The sequence i after its first context has been resolved
Advance(i) ==
    IF Len(iters[i].contexts) <= 1
    THEN Remove(iters, i)
    ELSE [iters EXCEPT ![i].contexts = Tail(@)]

Open(i, op, name) ==
    /\ iters[i].op = op
    /\ iters[i].name = name
    /\ iters[i].contexts # <<>>

InitWith(md, db, test) ==
    /\ cfg_test = test
    /\ metadata = md
    /\ packages = parse_metadata(md).packages
    /\ direct_dependencies = parse_metadata(md).direct_dependencies
    /\ remote_db = db
    /\ advisory_client = <<>>
    /\ geiger_client = <<>>
    /\ gh_client = [repo_cache |-> {}, user_cache |-> {}]
    /\ gh_borrow = 0
    /\ holder = NoCall
    /\ created = [github |-> 1, advisory |-> 0, geiger |-> 0]
    /\ failed = [github |-> 0, advisory |-> 0, geiger |-> 0]
    /\ iters = <<>>
    /\ frontier = <<>>
    /\ last = NoStep
    /\ status = "running"

ResolveStartingVertices(edge_name, include_root) ==
    /\ status = "running"
    /\ iters = <<>>
    /\ LET parameters == [NoParameters EXCEPT !.includeRoot = include_root]
           r == resolve_starting_vertices(metadata, packages, edge_name, parameters, cfg_test)
       IN  /\ frontier' = r.vertices
           /\ status' = IF r.panic THEN "panicked" ELSE "running"
           /\ last' = [Step("start", "", edge_name, parameters)
                          EXCEPT !.vertices = r.vertices, !.panic = r.panic]
    /\ UNCHANGED <<indexVars, clientVars, iters>>

\* resolve_neighbors retrieving the advisory client before it matches the edge, so
\* that (Package, dependencies) creates it too
NeighborsDependencies_creating_client(contexts) ==
    /\ status = "running"
    /\ iters = <<>>
    /\ LET c == advisory_client_get(advisory_client, remote_db, TRUE) IN
         /\ advisory_client' = c.cell
         /\ created' = IF c.created THEN [created EXCEPT !.advisory = @ + 1] ELSE created
    /\ iters' = Append(iters, Iter("neighbors", "Package", "dependencies", NoParameters, contexts))
    /\ last' = Step("resolve_neighbors", "Package", "dependencies", NoParameters)
    /\ UNCHANGED <<indexVars, geiger_client, gh_client, failed, frontier, status, gh_borrow, holder>>

\* resolve_neighbors for (Package, dependencies)
NeighborsDependencies(contexts) ==
    /\ status = "running"
    /\ iters = <<>>
    /\ iters' = Append(iters, Iter("neighbors", "Package", "dependencies", NoParameters, contexts))
    /\ last' = Step("resolve_neighbors", "Package", "dependencies", NoParameters)
    /\ UNCHANGED <<indexVars, clientVars, frontier, status>>

\* The pull of a (Package, dependencies) outcome taking the list out of the index
\* instead of reading it
PullDependencies_taking(i) ==
    /\ status = "running"
    /\ Open(i, "neighbors", "dependencies")
    /\ LET ctx == Head(iters[i].contexts)
           r == IF ctx = NoVertex
                THEN Yielded(<<>>)
                ELSE get_dependencies(packages, direct_dependencies, ctx.package.id)
       IN  /\ frontier' = r.vertices
           /\ status' = IF r.panic THEN "panicked" ELSE "running"
           /\ last' = [Step("pull", "Package", "dependencies", NoParameters)
                          EXCEPT !.ctx = ctx, !.vertices = r.vertices, !.panic = r.panic]
           /\ direct_dependencies' =
                 IF ctx = NoVertex \/ r.panic THEN direct_dependencies
                 ELSE [direct_dependencies EXCEPT ![ctx.package.id] = <<>>]
    /\ iters' = Advance(i)
    /\ UNCHANGED <<cfg_test, metadata, packages, remote_db, clientVars>>

\* The engine pulls the next outcome of a (Package, dependencies) sequence
PullDependencies(i) ==
    /\ status = "running"
    /\ Open(i, "neighbors", "dependencies")
    /\ LET ctx == Head(iters[i].contexts)
           r == IF ctx = NoVertex
                THEN Yielded(<<>>)
                ELSE get_dependencies(packages, direct_dependencies, ctx.package.id)
       IN  /\ frontier' = r.vertices
           /\ status' = IF r.panic THEN "panicked" ELSE "running"
           /\ last' = [Step("pull", "Package", "dependencies", NoParameters)
                          EXCEPT !.ctx = ctx, !.vertices = r.vertices, !.panic = r.panic]
    /\ iters' = Advance(i)
    /\ UNCHANGED <<indexVars, clientVars>>

\* resolve_neighbors for (Package, repository)
NeighborsRepository(contexts) ==
    /\ status = "running"
    /\ iters = <<>>
    /\ iters' = Append(iters, Iter("neighbors", "Package", "repository", NoParameters, contexts))
    /\ last' = Step("resolve_neighbors", "Package", "repository", NoParameters)
    /\ UNCHANGED <<indexVars, clientVars, frontier, status>>

\* The engine pulls the next outcome of a (Package, repository) sequence
PullRepository(i, parsed, answer) ==
    /\ status = "running"
    /\ Open(i, "neighbors", "repository")
    /\ LET ctx == Head(iters[i].contexts)
           r == IF ctx = NoVertex \/ ctx.package.repository = None
                THEN Resolved(<<>>, gh_client, Unparsed, <<>>, <<>>)
                ELSE get_repository_from_url(ctx.package.repository, gh_client, parsed, answer)
       IN  /\ frontier' = r.vertices
           /\ gh_client' = r.gh
           /\ status' = IF r.panic THEN "panicked" ELSE "running"
           /\ last' = [Step("pull", "Package", "repository", NoParameters)
                          EXCEPT !.ctx = ctx, !.vertices = r.vertices, !.panic = r.panic,
                                 !.parsed = r.parsed, !.calls = r.calls, !.found = r.found]
    /\ iters' = Advance(i)
    /\ UNCHANGED <<indexVars, advisory_client, geiger_client, created, failed, gh_borrow, holder>>

\* resolve_neighbors for (GitHubRepository, owner) collecting the users of the
\* whole input stream before it returns the sequence
NeighborsOwner_collecting(contexts) ==
    /\ status = "running"
    /\ iters = <<>>
    /\ iters' = Append(iters, Iter("neighbors", "GitHubRepository", "owner", NoParameters, contexts))
    /\ gh_client' =
          [gh_client EXCEPT !.user_cache =
              @ \cup {[login |-> contexts[j].repo.owner] :
                         j \in {k \in 1..Len(contexts) :
                                   /\ contexts[k] # NoVertex
                                   /\ contexts[k].repo.owner # None}}]
    /\ last' = Step("resolve_neighbors", "GitHubRepository", "owner", NoParameters)
    /\ UNCHANGED <<indexVars, advisory_client, geiger_client, created, failed, frontier, status, gh_borrow, holder>>

\* resolve_neighbors for (GitHubRepository, owner)
NeighborsOwner(contexts) ==
    /\ status = "running"
    /\ iters = <<>>
    /\ iters' = Append(iters, Iter("neighbors", "GitHubRepository", "owner", NoParameters, contexts))
    /\ last' = Step("resolve_neighbors", "GitHubRepository", "owner", NoParameters)
    /\ UNCHANGED <<indexVars, clientVars, frontier, status>>

\* The engine pulls the next outcome of a (GitHubRepository, owner) sequence
PullOwner(i, answer) ==
    /\ status = "running"
    /\ Open(i, "neighbors", "owner")
    /\ LET ctx == Head(iters[i].contexts)
           got == IF ctx = NoVertex \/ ctx.repo.owner = None
                  THEN [found |-> <<>>, gh |-> gh_client]
                  ELSE GitHubClient_get_public_user(gh_client, ctx.repo.owner, answer)
           vertices == IF got.found = <<>> THEN <<>> ELSE <<VGitHubUser(got.found[1])>>
       IN  /\ frontier' = vertices
           /\ gh_client' = got.gh
           /\ last' = [Step("pull", "GitHubRepository", "owner", NoParameters)
                          EXCEPT !.ctx = ctx, !.vertices = vertices, !.found = got.found,
                                 !.calls = IF ctx = NoVertex \/ ctx.repo.owner = None
                                           THEN <<>> ELSE <<ctx.repo.owner>>]
    /\ iters' = Advance(i)
    /\ UNCHANGED <<indexVars, advisory_client, geiger_client, created, failed, status, gh_borrow, holder>>

\* resolve_neighbors for (Package, advisoryHistory) surviving a creation of the
\* client that failed: the sequence is empty and the query goes on
NeighborsAdvisoryHistory_retrying(contexts, parameters, ok) ==
    /\ status = "running"
    /\ iters = <<>>
    /\ LET c == advisory_client_get(advisory_client, remote_db, ok) IN
         /\ advisory_client' = c.cell
         /\ created' = IF c.created THEN [created EXCEPT !.advisory = @ + 1] ELSE created
         /\ failed' = IF c.panic THEN [failed EXCEPT !.advisory = Min(@ + 1, 2)] ELSE failed
         /\ iters' = IF c.panic THEN iters
                     ELSE Append(iters, Iter("neighbors", "Package", "advisoryHistory",
                                             parameters, contexts))
         /\ last' = [Step("resolve_neighbors", "Package", "advisoryHistory", parameters)
                        EXCEPT !.created = IF c.created THEN {"advisory"} ELSE {}]
    /\ UNCHANGED <<indexVars, geiger_client, gh_client, frontier, status, gh_borrow, holder>>

\* resolve_neighbors for (Package, advisoryHistory): the advisory client is
\* retrieved or created, then the sequence is returned
NeighborsAdvisoryHistory(contexts, parameters, ok) ==
    /\ status = "running"
    /\ iters = <<>>
    /\ LET c == advisory_client_get(advisory_client, remote_db, ok) IN
         /\ advisory_client' = c.cell
         /\ created' = IF c.created THEN [created EXCEPT !.advisory = @ + 1] ELSE created
         /\ failed' = IF c.panic THEN [failed EXCEPT !.advisory = @ + 1] ELSE failed
         /\ status' = IF c.panic THEN "panicked" ELSE "running"
         /\ iters' = IF c.panic THEN iters
                     ELSE Append(iters, Iter("neighbors", "Package", "advisoryHistory",
                                             parameters, contexts))
         /\ last' = [Step("resolve_neighbors", "Package", "advisoryHistory", parameters)
                        EXCEPT !.created = IF c.created THEN {"advisory"} ELSE {},
                               !.panic = c.panic]
    /\ UNCHANGED <<indexVars, geiger_client, gh_client, frontier, gh_borrow, holder>>

\* The engine pulls the next outcome of a (Package, advisoryHistory) sequence
PullAdvisoryHistory(i) ==
    /\ status = "running"
    /\ Open(i, "neighbors", "advisoryHistory")
    /\ LET ctx == Head(iters[i].contexts)
           r == IF ctx = NoVertex
                THEN Yielded(<<>>)
                ELSE advisory_history(advisory_client[1], ctx.package, iters[i].parameters)
       IN  /\ frontier' = r.vertices
           /\ status' = IF r.panic THEN "panicked" ELSE "running"
           /\ last' = [Step("pull", "Package", "advisoryHistory", iters[i].parameters)
                          EXCEPT !.ctx = ctx, !.vertices = r.vertices, !.panic = r.panic]
    /\ iters' = Advance(i)
    /\ UNCHANGED <<indexVars, clientVars>>

\* resolve_neighbors for (Package, geiger): the geiger client is retrieved or
\* created, then the sequence is returned
NeighborsGeiger(contexts, reports, ok) ==
    /\ status = "running"
    /\ iters = <<>>
    /\ LET c == geiger_client_get(geiger_client, reports, ok) IN
         /\ geiger_client' = c.cell
         /\ created' = IF c.created THEN [created EXCEPT !.geiger = @ + 1] ELSE created
         /\ failed' = IF c.panic THEN [failed EXCEPT !.geiger = @ + 1] ELSE failed
         /\ status' = IF c.panic THEN "panicked" ELSE "running"
         /\ iters' = IF c.panic THEN iters
                     ELSE Append(iters, Iter("neighbors", "Package", "geiger",
                                             NoParameters, contexts))
         /\ last' = [Step("resolve_neighbors", "Package", "geiger", NoParameters)
                        EXCEPT !.created = IF c.created THEN {"geiger"} ELSE {},
                               !.panic = c.panic]
    /\ UNCHANGED <<indexVars, advisory_client, gh_client, frontier, gh_borrow, holder>>

\* The engine pulls the next outcome of a (Package, geiger) sequence
PullGeiger(i) ==
    /\ status = "running"
    /\ Open(i, "neighbors", "geiger")
    /\ LET ctx == Head(iters[i].contexts)
           r == IF ctx = NoVertex THEN Yielded(<<>>)
                ELSE geiger_unsafety(geiger_client[1], ctx.package)
       IN  /\ frontier' = r.vertices
           /\ status' = IF r.panic THEN "panicked" ELSE "running"
           /\ last' = [Step("pull", "Package", "geiger", NoParameters)
                          EXCEPT !.ctx = ctx, !.vertices = r.vertices, !.panic = r.panic]
    /\ iters' = Advance(i)
    /\ UNCHANGED <<indexVars, clientVars>>

\* resolve_neighbors for (Advisory, affectedFunctions)
NeighborsAffectedFunctions(contexts) ==
    /\ status = "running"
    /\ iters = <<>>
    /\ iters' = Append(iters, Iter("neighbors", "Advisory", "affectedFunctions",
                                   NoParameters, contexts))
    /\ last' = Step("resolve_neighbors", "Advisory", "affectedFunctions", NoParameters)
    /\ UNCHANGED <<indexVars, clientVars, frontier, status>>

\* The engine pulls the next outcome of an (Advisory, affectedFunctions) sequence
PullAffectedFunctions(i) ==
    /\ status = "running"
    /\ Open(i, "neighbors", "affectedFunctions")
    /\ LET ctx == Head(iters[i].contexts)
           r == IF ctx = NoVertex THEN Yielded(<<>>) ELSE affected_functions(ctx.advisory)
       IN  /\ frontier' = r.vertices
           /\ status' = IF r.panic THEN "panicked" ELSE "running"
           /\ last' = [Step("pull", "Advisory", "affectedFunctions", NoParameters)
                          EXCEPT !.ctx = ctx, !.vertices = r.vertices, !.panic = r.panic]
    /\ iters' = Advance(i)
    /\ UNCHANGED <<indexVars, clientVars>>

\* The (type, edge) pairs resolve_neighbors matches
Edges ==
    ({"Package"} \X {"dependencies", "repository", "advisoryHistory", "geiger"})
    \cup {<<"GitHubRepository", "owner">>, <<"Advisory", "affectedFunctions">>}
    \cup ({"GeigerUnsafety"} \X {"used", "unused", "total"})
    \cup ({"GeigerCategories"} \X {"functions", "exprs", "item_impls", "item_traits",
                                   "methods", "total"})

\* resolve_neighbors for a (type, edge) pair it does not match
NeighborsUndeclared(type_name, edge_name, contexts) ==
    /\ status = "running"
    /\ iters = <<>>
    /\ <<type_name, edge_name>> \notin Edges
    /\ status' = "panicked"
    /\ last' = [Step("resolve_neighbors", type_name, edge_name, NoParameters)
                   EXCEPT !.panic = TRUE]
    /\ UNCHANGED <<indexVars, clientVars, iters, frontier>>

\* resolve_coercion: the sequence is returned, no context is looked at yet
ResolveCoercion(type_name, coerce_to_type, contexts) ==
    /\ status = "running"
    /\ iters = <<>>
    /\ iters' = Append(iters, Iter("coercion", type_name, coerce_to_type, NoParameters, contexts))
    /\ last' = Step("resolve_coercion", type_name, coerce_to_type, NoParameters)
    /\ UNCHANGED <<indexVars, clientVars, frontier, status>>

\* The engine pulls the next outcome of a coercion sequence
PullCoercion(i) ==
    /\ status = "running"
    /\ iters[i].op = "coercion"
    /\ iters[i].contexts # <<>>
    /\ LET ctx == Head(iters[i].contexts)
           r == resolve_coercion(ctx, iters[i].type_name, iters[i].name)
       IN  /\ status' = IF r.panic THEN "panicked" ELSE "running"
           /\ last' = [Step("pull_coercion", iters[i].type_name, iters[i].name, NoParameters)
                          EXCEPT !.ctx = ctx, !.can_coerce = r.can_coerce, !.panic = r.panic]
    /\ iters' = Advance(i)
    /\ UNCHANGED <<indexVars, clientVars, frontier>>

\* resolve_property for a property of Package: a pair that is not matched panics at
\* once, else the sequence is returned
ResolveProperty(type_name, property_name, contexts) ==
    /\ status = "running"
    /\ iters = <<>>
    /\ LET panic == <<type_name, property_name>> \notin Properties IN
         /\ status' = IF panic THEN "panicked" ELSE "running"
         /\ iters' = IF panic THEN iters
                     ELSE Append(iters, Iter("property", type_name, property_name,
                                             NoParameters, contexts))
         /\ last' = [Step("resolve_property", type_name, property_name, NoParameters)
                        EXCEPT !.panic = panic]
    /\ UNCHANGED <<indexVars, clientVars, frontier>>

\* The engine pulls the next outcome of a sequence of a property of Package
PullProperty(i) ==
    /\ status = "running"
    /\ iters[i].op = "property"
    /\ iters[i].type_name = "Package"
    /\ iters[i].contexts # <<>>
    /\ LET ctx == Head(iters[i].contexts)
           value == IF ctx = NoVertex THEN Null
                    ELSE package_property(ctx.package, iters[i].name)
       IN  last' = [Step("pull_property", "Package", iters[i].name, NoParameters)
                       EXCEPT !.ctx = ctx, !.value = value]
    /\ iters' = Advance(i)
    /\ UNCHANGED <<indexVars, clientVars, frontier, status>>

\* The engine pulls the next outcome of a sequence of an optional property of
\* Advisory
PullAdvisoryProperty(i) ==
    /\ status = "running"
    /\ iters[i].op = "property"
    /\ iters[i].type_name = "Advisory"
    /\ iters[i].contexts # <<>>
    /\ LET ctx == Head(iters[i].contexts)
           value == IF ctx = NoVertex THEN Null
                    ELSE advisory_property(ctx.advisory, iters[i].name)
       IN  last' = [Step("pull_property", "Advisory", iters[i].name, NoParameters)
                       EXCEPT !.ctx = ctx, !.value = value]
    /\ iters' = Advance(i)
    /\ UNCHANGED <<indexVars, clientVars, frontier, status>>

\* The engine drops a sequence without pulling it to its end
Drop(i) ==
    /\ status = "running"
    /\ iters' = Remove(iters, i)
    /\ last' = [Step("drop", iters[i].type_name, iters[i].name, iters[i].parameters)
                   EXCEPT !.ctx = IF iters[i].contexts = <<>> THEN NoVertex
                                  ELSE Head(iters[i].contexts)]
    /\ UNCHANGED <<indexVars, clientVars, frontier, status>>

\* ------------------------------------------- borrows of the shared client

\* RefCell::borrow_mut: the guard, or the already-borrowed panic while a guard is alive
RefCell_borrow_mut(borrow) ==
    IF borrow # 0 THEN [panic |-> TRUE, borrow |-> borrow]
    ELSE [panic |-> FALSE, borrow |-> borrow + 1]

\* The drop of a guard that the closure has moved into the sequence it returns
RefMut_kept(borrow) == borrow

\* The drop of a RefMut guard
RefMut_drop(borrow) == borrow - 1

\* Whether the closure of (Package, repository) reaches get_repository on the context
ReachesGetRepository(ctx, parsed) ==
    /\ ctx # NoVertex
    /\ ctx.package.repository # None
    /\ get_repository_from_url(ctx.package.repository, gh_client, parsed, <<>>).calls # <<>>

\* Whether the closure of (GitHubRepository, owner) reaches get_public_user
ReachesGetPublicUser(ctx) == ctx # NoVertex /\ ctx.repo.owner # None

\* The closure of sequence i takes the guard of the client at the call it has reached
BorrowMut(i, type_name, name, ctx, parsed) ==
    LET taken == RefCell_borrow_mut(gh_borrow) IN
    /\ gh_borrow' = taken.borrow
    /\ holder' = IF taken.panic THEN holder ELSE [i |-> i, parsed |-> parsed]
    /\ status' = IF taken.panic THEN "panicked" ELSE "running"
    /\ last' = [Step("borrow_mut", type_name, name, NoParameters)
                   EXCEPT !.ctx = ctx, !.parsed = parsed, !.panic = taken.panic]
    /\ UNCHANGED <<indexVars, advisory_client, geiger_client, gh_client, created, failed,
                   iters, frontier>>

\* The engine pulls a (Package, repository) sequence whose closure reaches
\* gh_client.borrow_mut() on the next context
BorrowMutRepository(i, parsed) ==
    /\ status = "running"
    /\ holder = NoCall
    /\ Open(i, "neighbors", "repository")
    /\ ReachesGetRepository(Head(iters[i].contexts), parsed)
    /\ BorrowMut(i, "Package", "repository", Head(iters[i].contexts), parsed)

\* The closure holds the guard: get_repository, the vertex, and the guard is dropped
\* at the end of the if let
LookupRepository(i, answer) ==
    /\ status = "running"
    /\ holder.i = i
    /\ Open(i, "neighbors", "repository")
    /\ LET ctx == Head(iters[i].contexts)
           r == get_repository_from_url(ctx.package.repository, gh_client, holder.parsed, answer)
       IN  /\ frontier' = r.vertices
           /\ gh_client' = r.gh
           /\ status' = IF r.panic THEN "panicked" ELSE "running"
           /\ last' = [Step("pull", "Package", "repository", NoParameters)
                          EXCEPT !.ctx = ctx, !.vertices = r.vertices, !.panic = r.panic,
                                 !.parsed = r.parsed, !.calls = r.calls, !.found = r.found]
    /\ gh_borrow' = RefMut_drop(gh_borrow)
    /\ holder' = NoCall
    /\ iters' = Advance(i)
    /\ UNCHANGED <<indexVars, advisory_client, geiger_client, created, failed>>

\* The engine pulls a (Package, repository) sequence whose closure returns without
\* a call of the client
PassRepository(i, parsed) ==
    /\ holder = NoCall
    /\ Open(i, "neighbors", "repository")
    /\ ~ReachesGetRepository(Head(iters[i].contexts), parsed)
    /\ PullRepository(i, parsed, <<>>)

\* resolve_neighbors for (GitHubRepository, owner) on the repositories that an open
\* (Package, repository) sequence has yielded
NeighborsOwnerOfOpen(contexts) ==
    /\ status = "running"
    /\ holder = NoCall
    /\ iters # <<>>
    /\ \A j \in 1..Len(iters) : iters[j].name = "repository"
    /\ contexts # <<>>
    /\ iters' = Append(iters, Iter("neighbors", "GitHubRepository", "owner", NoParameters, contexts))
    /\ last' = Step("resolve_neighbors", "GitHubRepository", "owner", NoParameters)
    /\ UNCHANGED <<indexVars, clientVars, frontier, status>>

\* The engine pulls a (GitHubRepository, owner) sequence whose closure reaches
\* gh_client.borrow_mut() on the next context
BorrowMutOwner(i) ==
    /\ status = "running"
    /\ holder = NoCall
    /\ Open(i, "neighbors", "owner")
    /\ ReachesGetPublicUser(Head(iters[i].contexts))
    /\ BorrowMut(i, "GitHubRepository", "owner", Head(iters[i].contexts), Unparsed)

\* The closure holds the guard: get_public_user, and the guard is dropped at the end
\* of the let, before the vertex is built
LookupOwner(i, answer) ==
    /\ status = "running"
    /\ holder.i = i
    /\ Open(i, "neighbors", "owner")
    /\ LET ctx == Head(iters[i].contexts)
           got == GitHubClient_get_public_user(gh_client, ctx.repo.owner, answer)
           vertices == IF got.found = <<>> THEN <<>> ELSE <<VGitHubUser(got.found[1])>>
       IN  /\ frontier' = vertices
           /\ gh_client' = got.gh
           /\ last' = [Step("pull", "GitHubRepository", "owner", NoParameters)
                          EXCEPT !.ctx = ctx, !.vertices = vertices, !.found = got.found,
                                 !.calls = <<ctx.repo.owner>>]
    /\ gh_borrow' = RefMut_drop(gh_borrow)
    /\ holder' = NoCall
    /\ iters' = Advance(i)
    /\ UNCHANGED <<indexVars, advisory_client, geiger_client, created, failed, status>>

\* The engine pulls a (GitHubRepository, owner) sequence whose closure returns
\* without a call of the client
PassOwner(i) ==
    /\ holder = NoCall
    /\ Open(i, "neighbors", "owner")
    /\ ~ReachesGetPublicUser(Head(iters[i].contexts))
    /\ PullOwner(i, <<>>)

\* ------------------------------------------------------------ specifications

\* The advisory database the specifications that do not vary it run on
NoAdvisories == <<>>

\* The index and the operations that read it, over every snapshot
InitIndex == \E md \in Snapshots, test \in BOOLEAN : InitWith(md, NoAdvisories, test)

NextIndex ==
    \/ \E e \in StartEdges, b \in BOOLEAN : ResolveStartingVertices(e, b)
    \/ \E c \in EngineContexts({"Package"}) : NeighborsDependencies(c)
    \/ \E i \in 1..Len(iters) : PullDependencies(i)
    \/ \E i \in 1..Len(iters) : Drop(i)

SpecIndex == InitIndex /\ [][NextIndex]_vars


\* The snapshot of the scenario: the root depends on the packages after it
ScenarioMetadata ==
    Metadata(Ascending, [id \in PkgIds |-> IF id = 1 THEN Min(MaxDeps, MaxPkgs - 1) ELSE 0],
             1, [id \in PkgIds |-> PkgRepository(id)])

\* An advisory database: the first advisory withdrawn, the severities alternating
ScenarioDb ==
    [i \in 1..MaxAdvisories |->
        Advisory(i, IF i = 1 THEN "2023-01-01" ELSE None,
                 IF i % 2 = 1 THEN "medium" ELSE "critical", <<>>)]

\* The input streams of one context, a package the engine was last yielded
SingleContexts ==
    {<<frontier[i]>> : i \in {j \in 1..Len(frontier) : frontier[j].kind = "Package"}}

\* The parameters advisoryHistory is called with
AdvisoryParameters ==
    {[NoParameters EXCEPT !.includeWithdrawn = w, !.arch = a, !.os = o, !.minSeverity = m] :
        w \in BOOLEAN, a \in {None, "x86_64", "arm"}, o \in {None, "windows"},
        m \in {None, "high", "critical"}}

\* The advisory client and advisoryHistory, over every advisory database
InitAdv == \E db \in Databases : InitWith(ScenarioMetadata, db, FALSE)

NextAdv ==
    \/ ResolveStartingVertices("Dependencies", TRUE)
    \/ \E c \in SingleContexts, p \in AdvisoryParameters, ok \in BOOLEAN :
          NeighborsAdvisoryHistory(c, p, ok)
    \/ \E i \in 1..Len(iters) : PullAdvisoryHistory(i)

SpecAdv == InitAdv /\ [][NextAdv]_vars

\* The repository edge, the owner edge and coercion, over every repository URL the
\* last package may declare
InitRepo ==
    \E url \in Urls \cup {None} :
        InitWith([ScenarioMetadata EXCEPT !.packages =
                     {Package(id, IF id = MaxPkgs THEN url ELSE PkgRepository(id)) :
                         id \in PkgIds}],
                 NoAdvisories, FALSE)

NextRepo ==
    \/ \E e \in StartEdges, b \in BOOLEAN : ResolveStartingVertices(e, b)
    \/ \E c \in EngineContexts({"Package"}) : NeighborsRepository(c)
    \/ \E i \in 1..Len(iters), parsed \in GitUrlResults :
          \E answer \in RepositoryAnswers(GitHubRepositoryId(parsed.owner, parsed.name)) :
             PullRepository(i, parsed, answer)
    \/ \E c \in EngineContexts({"GitHubRepository"}) : NeighborsOwner(c)
    \/ \E i \in 1..Len(iters), answer \in UserAnswers("acme") : PullOwner(i, answer)
    \/ \E t \in CoercionTargets, c \in EngineContexts({"Repository", "GitHubRepository"}) :
          ResolveCoercion("Repository", t, c)
    \/ \E i \in 1..Len(iters) : PullCoercion(i)
    \/ \E i \in 1..Len(iters) : Drop(i)

SpecRepo == InitRepo /\ [][NextRepo]_vars

\* The optional properties, over every first advisory of the database
OptionalAdvisoryProperties == {"unixDateWithdrawn", "affectedArch", "affectedOs", "severity"}

InitProp ==
    \E a \in AdvisoriesWithId(1) :
        InitWith(ScenarioMetadata, [ScenarioDb EXCEPT ![1] = a], FALSE)

NextProp ==
    \/ \E b \in BOOLEAN : ResolveStartingVertices("Dependencies", b)
    \/ \E c \in SingleContexts, w \in BOOLEAN :
          NeighborsAdvisoryHistory(c, [NoParameters EXCEPT !.includeWithdrawn = w], TRUE)
    \/ \E i \in 1..Len(iters) : PullAdvisoryHistory(i)
    \/ \E c \in EngineContexts({"Package"}) : ResolveProperty("Package", "license", c)
    \/ \E i \in 1..Len(iters) : PullProperty(i)
    \/ \E n \in OptionalAdvisoryProperties, c \in EngineContexts({"Advisory"}) :
          ResolveProperty("Advisory", n, c)
    \/ \E i \in 1..Len(iters) : PullAdvisoryProperty(i)

SpecProp == InitProp /\ [][NextProp]_vars

\* The edges that may have no neighbor, over every repository URL the last package
\* may declare and an advisory with and without affected section
InitEdges ==
    \E url \in Urls \cup {None}, affected \in {<<>>, <<Affected(<<"x86_64">>, <<"linux">>)>>} :
        InitWith([ScenarioMetadata EXCEPT !.packages =
                     {Package(id, IF id = MaxPkgs THEN url ELSE PkgRepository(id)) :
                         id \in PkgIds}],
                 [ScenarioDb EXCEPT ![1] = Advisory(1, None, "medium", affected)], FALSE)

NextEdges ==
    \/ \E b \in BOOLEAN : ResolveStartingVertices("Dependencies", b)
    \/ \E c \in EngineContexts({"Package"}) : NeighborsRepository(c)
    \/ \E i \in 1..Len(iters), parsed \in GitUrlResults :
          \E answer \in RepositoryAnswers(GitHubRepositoryId(parsed.owner, parsed.name)) :
             PullRepository(i, parsed, answer)
    \/ \E c \in EngineContexts({"GitHubRepository"}) : NeighborsOwner(c)
    \/ \E i \in 1..Len(iters), answer \in UserAnswers("acme") : PullOwner(i, answer)
    \/ \E c \in SingleContexts :
          NeighborsAdvisoryHistory(c, [NoParameters EXCEPT !.includeWithdrawn = FALSE], TRUE)
    \/ \E i \in 1..Len(iters) : PullAdvisoryHistory(i)
    \/ \E c \in EngineContexts({"Advisory"}) : NeighborsAffectedFunctions(c)
    \/ \E i \in 1..Len(iters) : PullAffectedFunctions(i)

SpecEdges == InitEdges /\ [][NextEdges]_vars

\* The sequences of the repository edge and of the owner edge, pulled in any order,
\* over every set of packages that declare the GitHub repository
InitBorrow ==
    \E repos \in [PkgIds -> {None, "https://github.com/acme/libfoo"}] :
        InitWith([ScenarioMetadata EXCEPT !.packages =
                     {Package(id, repos[id]) : id \in PkgIds}],
                 NoAdvisories, FALSE)

NextBorrow ==
    \/ \E b \in BOOLEAN : ResolveStartingVertices("Dependencies", b)
    \/ \E c \in EngineContexts({"Package"}) : NeighborsRepository(c)
    \/ \E i \in 1..Len(iters), parsed \in GitUrlResults : BorrowMutRepository(i, parsed)
    \/ \E i \in 1..Len(iters) :
          \E answer \in RepositoryAnswers(GitHubRepositoryId(holder.parsed.owner,
                                                             holder.parsed.name)) :
             LookupRepository(i, answer)
    \/ \E i \in 1..Len(iters), parsed \in GitUrlResults : PassRepository(i, parsed)
    \/ \E c \in EngineContexts({"GitHubRepository"}) : NeighborsOwnerOfOpen(c)
    \/ \E i \in 1..Len(iters) : BorrowMutOwner(i)
    \/ \E i \in 1..Len(iters), answer \in UserAnswers("acme") : LookupOwner(i, answer)
    \/ \E i \in 1..Len(iters) : PassOwner(i)

SpecBorrow == InitBorrow /\ [][NextBorrow]_vars

\* The adapter on the scenario, every operation in any order
Init == InitWith(ScenarioMetadata, ScenarioDb, FALSE)

Next ==
    \/ \E e \in StartEdges, b \in BOOLEAN : ResolveStartingVertices(e, b)
    \/ \E t \in {"Package"}, n \in {"name", "license", "undeclared"},
          c \in EngineContexts({"Package"}) : ResolveProperty(t, n, c)
    \/ \E i \in 1..Len(iters) : PullProperty(i)
    \/ \E c \in EngineContexts({"Package"}) : NeighborsDependencies(c)
    \/ \E i \in 1..Len(iters) : PullDependencies(i)
    \/ \E c \in EngineContexts({"Package"}) : NeighborsRepository(c)
    \/ \E i \in 1..Len(iters), parsed \in GitUrlResults :
          \E answer \in RepositoryAnswers(GitHubRepositoryId(parsed.owner, parsed.name)) :
             PullRepository(i, parsed, answer)
    \/ \E c \in EngineContexts({"Package"}), w \in BOOLEAN, ok \in BOOLEAN :
          NeighborsAdvisoryHistory(c, [NoParameters EXCEPT !.includeWithdrawn = w], ok)
    \/ \E i \in 1..Len(iters) : PullAdvisoryHistory(i)
    \/ \E c \in EngineContexts({"Package"}), reports \in GeigerReports(metadata),
          ok \in BOOLEAN : NeighborsGeiger(c, reports, ok)
    \/ \E i \in 1..Len(iters) : PullGeiger(i)
    \/ \E c \in EngineContexts({"GitHubRepository"}) : NeighborsOwner(c)
    \/ \E i \in 1..Len(iters), answer \in UserAnswers("acme") : PullOwner(i, answer)
    \/ \E t \in CoercionTargets, c \in EngineContexts({"Repository", "GitHubRepository"}) :
          ResolveCoercion("Repository", t, c)
    \/ \E i \in 1..Len(iters) : PullCoercion(i)
    \/ \E e \in {<<"Package", "owner">>, <<"Repository", "dependencies">>},
          c \in EngineContexts({"Package"}) : NeighborsUndeclared(e[1], e[2], c)
    \/ \E i \in 1..Len(iters) : Drop(i)

Spec == Init /\ [][Next]_vars

\* ------------------------------------------------------------------ claims

NodeIds == {metadata.nodes[i].id : i \in 1..Len(metadata.nodes)}

StartedDependencies ==
    /\ last.op = "start"
    /\ last.name = "Dependencies"
    /\ metadata.root # NoRoot

\* C1: on a snapshot with a resolvable root, Dependencies(includeRoot) yields Package
\* vertices only, one per resolved node: every node other than the root exactly
\* once, and the root exactly once with includeRoot = true and never with
\* includeRoot = false.
C1_DependenciesOncePerNode ==
    StartedDependencies =>
        /\ ~last.panic
        /\ \A i \in 1..Len(last.vertices) :
              /\ last.vertices[i].kind = "Package"
              /\ last.vertices[i].package.id \in NodeIds
              /\ last.vertices[i].package \in metadata.packages
        /\ \A id \in NodeIds :
              LET IsId(v) == v.package.id = id IN
              Len(SelectSeq(last.vertices, IsId)) =
                  IF id = metadata.root /\ ~last.parameters.includeRoot THEN 0 ELSE 1

C1_Witness ==
    /\ StartedDependencies
    /\ ~last.parameters.includeRoot
    /\ Len(last.vertices) = MaxPkgs - 1
    /\ Len(last.vertices) >= 2

PulledAdvisoryHistory ==
    /\ last.op = "pull"
    /\ last.name = "advisoryHistory"
    /\ last.ctx # NoVertex
    /\ ~last.panic

\* C2: for every package and every combination of the arch, os and minSeverity
\* filters, advisoryHistory called with includeWithdrawn = false never returns an
\* advisory whose withdrawal date is set.
C2_WithdrawnNeverReturned ==
    (PulledAdvisoryHistory /\ ~last.parameters.includeWithdrawn) =>
        \A i \in 1..Len(last.vertices) : last.vertices[i].advisory.withdrawn = None

\* C3: for every package and every fixed choice of arch, os and minSeverity, the
\* advisories advisoryHistory returns with includeWithdrawn = true are a superset
\* of those it returns with includeWithdrawn = false.
C3_WithdrawnIncludedIsSuperset ==
    (PulledAdvisoryHistory /\ last.parameters.includeWithdrawn) =>
        LET without == advisory_history(advisory_client[1], last.ctx.package,
                           [last.parameters EXCEPT !.includeWithdrawn = FALSE])
        IN  /\ ~without.panic
            /\ Range(without.vertices) \subseteq Range(last.vertices)

C3_Witness ==
    /\ PulledAdvisoryHistory
    /\ last.parameters.includeWithdrawn
    /\ last.parameters.minSeverity # None
    /\ \E i, j \in 1..Len(last.vertices) :
          /\ last.vertices[i].advisory.withdrawn # None
          /\ last.vertices[j].advisory.withdrawn = None
          /\ last.vertices[j].advisory.severity # None

PulledDependencies ==
    /\ last.op = "pull"
    /\ last.name = "dependencies"
    /\ last.ctx # NoVertex

\* C4: for a Package vertex, the (Package, dependencies) edge yields as many
\* neighbors as the direct-dependency list the index records for the package's id,
\* and the i-th neighbor is the package whose id is the i-th entry of that list.
C4_DependenciesInRecordedOrder ==
    PulledDependencies =>
        LET recorded == direct_dependencies[last.ctx.package.id] IN
        /\ ~last.panic
        /\ Len(last.vertices) = Len(recorded)
        /\ \A i \in 1..Len(recorded) :
              /\ last.vertices[i].kind = "Package"
              /\ last.vertices[i].package.id = recorded[i]
              /\ last.vertices[i].package \in metadata.packages

C4_Witness ==
    /\ PulledDependencies
    /\ Len(last.vertices) = 2
    /\ last.vertices[1].package.id > last.vertices[2].package.id

PulledCoercion ==
    /\ last.op = "pull_coercion"
    /\ last.ctx # NoVertex

\* C5: for every vertex produced by the (Package, repository) edge, coercion to
\* Repository and coercion to GitHubRepository are mutually exclusive and exactly
\* one of the two returns true: Repository iff the vertex is the generic variant,
\* GitHubRepository iff it is the rich variant.
C5_ExactlyOneCoercion ==
    (PulledCoercion /\ last.name \in {"Repository", "GitHubRepository"}) =>
        LET other == IF last.name = "Repository" THEN "GitHubRepository" ELSE "Repository"
            to_other == resolve_coercion(last.ctx, last.type_name, other)
        IN  /\ last.ctx.kind \in {"Repository", "GitHubRepository"}
            /\ ~last.panic
            /\ last.can_coerce <=> last.ctx.kind = last.name
            /\ ~to_other.panic
            /\ to_other.can_coerce <=> ~last.can_coerce

C5_Witness ==
    /\ PulledCoercion
    /\ last.name = "GitHubRepository"
    /\ last.ctx.kind = "GitHubRepository"
    /\ last.can_coerce

UnsupportedCoercion ==
    /\ last.op = "pull_coercion"
    /\ last.name \notin {"Repository", "GitHubRepository"}

\* C6: coercion to any target other than Repository or GitHubRepository is fatal
\* rather than returning false, for every input context of resolve_coercion,
\* including a context that has no active vertex.
C6_UnsupportedTargetFatal == UnsupportedCoercion => last.panic

\* C6, amended: coercion to any target other than Repository or GitHubRepository
\* is fatal for every context that has an active vertex; for a context that has no
\* active vertex it is not fatal and returns false.
C6_UnsupportedTargetFatalForVertex ==
    UnsupportedCoercion =>
        /\ last.ctx # NoVertex => last.panic
        /\ last.ctx = NoVertex => ~last.panic /\ ~last.can_coerce

C6_Witness ==
    /\ UnsupportedCoercion
    /\ last.ctx # NoVertex
    /\ last.panic
    /\ status = "panicked"

PulledRepository ==
    /\ last.op = "pull"
    /\ last.name = "repository"
    /\ last.ctx # NoVertex
    /\ last.ctx.package.repository # None

\* The parsed URL has no owner, the lookup returns nothing, the URL fails to parse,
\* or the parsed host is not exactly github.com
FallsBack ==
    \/ last.parsed.ok /\ last.parsed.owner = None
    \/ last.calls # <<>> /\ last.found = <<>>
    \/ ~last.parsed.ok
    \/ last.parsed.host # "github.com"

\* C7: the URL resolver never fails the query: if the parsed URL has no owner, the
\* lookup returns nothing, the URL fails to parse, or the parsed host is not exactly
\* github.com, it returns the generic Repository whose url is the input unchanged;
\* only a successful lookup yields a GitHubRepository.
C7_ResolverNeverFails ==
    PulledRepository =>
        /\ ~last.panic
        /\ FallsBack => last.vertices = <<VRepository(last.ctx.package.repository)>>
        /\ \A i \in 1..Len(last.vertices) :
              last.vertices[i].kind = "GitHubRepository" =>
                  last.calls # <<>> /\ last.found # <<>>

\* C7, amended: a URL that contains github.com and parses with host github.com but
\* without an owner aborts the query; for every other URL the resolver does not
\* fail, and if the lookup returns nothing, the URL fails to parse, or the parsed
\* host is not exactly github.com, it returns the generic Repository whose url is
\* the input unchanged; only a successful lookup yields a GitHubRepository.
C7_ResolverFailsOnlyWithoutOwner ==
    PulledRepository =>
        /\ last.panic <=> /\ last.ctx.package.repository \in UrlsContainingGitHub
                          /\ last.parsed.ok
                          /\ last.parsed.host = "github.com"
                          /\ last.parsed.owner = None
        /\ last.panic => last.vertices = <<>> /\ last.calls = <<>>
        /\ (~last.panic /\ FallsBack) =>
              last.vertices = <<VRepository(last.ctx.package.repository)>>
        /\ \A i \in 1..Len(last.vertices) :
              last.vertices[i].kind = "GitHubRepository" =>
                  last.calls # <<>> /\ last.found # <<>>
        /\ (last.calls # <<>> /\ last.found # <<>>) =>
              last.vertices = <<VGitHubRepository(last.found[1])>>

C7_Witness ==
    /\ PulledRepository
    /\ last.calls # <<>>
    /\ last.found = <<>>
    /\ last.vertices = <<VRepository("https://github.com/acme/libfoo")>>
    /\ gh_client.repo_cache = {}

\* C8: the resolver calls get_repository only for a URL that contains github.com,
\* parses, and whose parsed host is exactly github.com; for every other URL no call
\* is made and the client's cache is left unchanged.
C8_LookupOnlyForGitHubHost ==
    [][(last'.op = "pull" /\ last'.name = "repository") =>
          LET url == IF last'.ctx = NoVertex THEN None ELSE last'.ctx.package.repository
              looked_up == /\ url \in UrlsContainingGitHub
                           /\ last'.parsed.ok
                           /\ last'.parsed.host = "github.com"
          IN  /\ last'.calls # <<>> => looked_up
              /\ ~looked_up => last'.calls = <<>> /\ gh_client' = gh_client
              /\ \A i \in 1..Len(last'.calls) :
                    last'.calls[i] = GitHubRepositoryId(last'.parsed.owner, last'.parsed.name)
      ]_vars

C8_Witness ==
    /\ PulledRepository
    /\ last.ctx.package.repository = "https://www.github.com/acme/libfoo"
    /\ last.parsed.ok
    /\ last.parsed.host = "www.github.com"
    /\ last.parsed.owner = "acme"
    /\ last.calls = <<>>
    /\ gh_client.repo_cache # {}

\* C9: over any sequence of operations of one adapter, each backend client
\* (repository-info, advisory-database, unsafe-usage) is created at most once; once
\* a client has been created, retrieving it returns that client and creates none.
C9_ClientsCreatedOnce ==
    /\ [](created.github <= 1 /\ created.advisory <= 1 /\ created.geiger <= 1)
    /\ [][/\ advisory_client # <<>> =>
                advisory_client' = advisory_client /\ created'.advisory = created.advisory
          /\ geiger_client # <<>> =>
                geiger_client' = geiger_client /\ created'.geiger = created.geiger
          /\ created'.github = created.github]_vars

C9_Witness ==
    /\ last.op = "resolve_neighbors"
    /\ last.name = "advisoryHistory"
    /\ ~last.panic
    /\ last.created = {}
    /\ created.advisory = 1
    /\ created.geiger = 1
    /\ failed.advisory = 0

\* The advisory-database client, or the unsafe-usage client, is created in this step
CreatesAdvisoryClient ==
    advisory_client' # advisory_client \/ created'.advisory # created.advisory

CreatesGeigerClient ==
    geiger_client' # geiger_client \/ created'.geiger # created.geiger

C11_FailedCreationIsTerminal ==
    /\ [](\A category \in {"advisory", "geiger"} :
             failed[category] > 0 =>
                 /\ status = "panicked"
                 /\ failed[category] = 1
                 /\ created[category] = 0
                 /\ last.panic /\ last.op = "resolve_neighbors")
    /\ [](failed.advisory > 0 => advisory_client = <<>>)
    /\ [](failed.geiger > 0 => geiger_client = <<>>)
    /\ [][status = "panicked" => UNCHANGED <<clientVars, iters, frontier, last, status>>]_vars

C11_Witness ==
    /\ failed.advisory = 1
    /\ status = "panicked"
    /\ last.name = "advisoryHistory"
    /\ created.geiger = 1
    /\ geiger_client # <<>>

\* The ids of the index: the keys of either map
IndexIds == DOMAIN packages \cup DOMAIN direct_dependencies

\* Every id of the index is a key of both maps and is mapped to its package and to
\* the dependency list of its node, and every id of a dependency list is a key of
\* packages
IndexClosed ==
    /\ IndexIds = {p.id : p \in metadata.packages}
    /\ \A id \in IndexIds :
          /\ id \in DOMAIN packages
          /\ id \in DOMAIN direct_dependencies
          /\ packages[id] \in metadata.packages
          /\ packages[id].id = id
          /\ \E i \in 1..Len(metadata.nodes) :
                /\ metadata.nodes[i].id = id
                /\ metadata.nodes[i].dependencies = direct_dependencies[id]
    /\ \A id \in DOMAIN direct_dependencies :
          \A i \in 1..Len(direct_dependencies[id]) :
             direct_dependencies[id][i] \in DOMAIN packages

\* C12: after parse_metadata on any snapshot, every package id of the index is a
\* key of both the packages map and the direct_dependencies map, every id listed in
\* a direct-dependency list is a key of packages, and the designated root id is
\* present.
C12_IndexClosedWithRoot ==
    /\ IndexClosed
    /\ metadata.root \in DOMAIN packages
    /\ metadata.root \in DOMAIN direct_dependencies

\* C12, amended: after parse_metadata on any snapshot, every package id of the
\* index is a key of both maps and every id listed in a direct-dependency list is a
\* key of packages; the root id is present when the snapshot designates a root,
\* which parse_metadata does not require.
C12_IndexClosedRootIfAny ==
    /\ IndexClosed
    /\ metadata.root # NoRoot =>
          /\ metadata.root \in DOMAIN packages
          /\ metadata.root \in DOMAIN direct_dependencies

C12_Witness ==
    /\ last = NoStep
    /\ metadata.root = 2
    /\ metadata.nodes[1].id = MaxPkgs
    /\ Len(direct_dependencies[2]) = 2
    /\ direct_dependencies[1] = <<>>

\* C13: the dependency graph index is never mutated after construction: every
\* operation of the adapter (start, property, neighbors, coercion), in any sequence,
\* leaves the packages map and the direct_dependencies map unchanged.
C13_IndexNeverMutated ==
    /\ [](/\ packages = parse_metadata(metadata).packages
          /\ direct_dependencies = parse_metadata(metadata).direct_dependencies)
    /\ [][UNCHANGED <<metadata, packages, direct_dependencies>>]_vars

C13_Witness ==
    /\ last.op = "pull"
    /\ last.name = "dependencies"
    /\ Len(last.vertices) = 2
    /\ created.advisory = 1
    /\ gh_client.repo_cache # {}
    /\ packages = parse_metadata(metadata).packages
    /\ direct_dependencies = parse_metadata(metadata).direct_dependencies

\* The step pulls an outcome of a property or of a neighbor sequence
PullsOutcome == last'.op \in {"pull", "pull_property"}

\* C14: property and neighbor resolution are 1:1 and order-preserving with the
\* input stream: a sequence returned for n contexts emits exactly n outcomes, and
\* the i-th outcome carries the i-th context with the value, or the neighbors,
\* computed from that context's vertex.
C14_OneOutcomePerContextInOrder ==
    [][/\ (last'.op \in {"resolve_neighbors", "resolve_property"} /\ ~last'.panic) =>
             /\ Len(iters') = 1
             /\ iters'[1].name = last'.name
             /\ iters'[1].contexts \in EngineContexts({"Package", "GitHubRepository"})
       /\ PullsOutcome =>
             /\ Len(iters) = 1
             /\ iters[1].contexts # <<>>
             /\ iters[1].name = last'.name
             /\ last'.ctx = Head(iters[1].contexts)
             /\ iters' = IF Len(iters[1].contexts) = 1 THEN <<>>
                         ELSE <<[iters[1] EXCEPT !.contexts = Tail(@)]>>
             /\ last'.op = "pull_property" =>
                   last'.value = IF last'.ctx = NoVertex THEN Null
                                 ELSE package_property(last'.ctx.package, last'.name)
             /\ (last'.op = "pull" /\ last'.ctx = NoVertex) => last'.vertices = <<>>
             /\ (last'.op = "pull" /\ last'.name = "dependencies" /\ last'.ctx # NoVertex) =>
                   last'.vertices =
                       get_dependencies(packages, direct_dependencies,
                                        last'.ctx.package.id).vertices]_vars

C14_Witness ==
    /\ last.op = "pull_property"
    /\ last.name = "license"
    /\ last.ctx # NoVertex
    /\ last.ctx.package.id = 3
    /\ last.value = String("MIT")
    /\ frontier = <<VPackage(packages[2]), VPackage(packages[3])>>
    /\ iters = <<>>

PulledProperty ==
    /\ last.op = "pull_property"
    /\ last.ctx # NoVertex

\* The data the property pulled last reads is absent from its vertex
AbsentData ==
    \/ /\ last.type_name = "Package"
       /\ last.name = "license"
       /\ last.ctx.package.license = None
    \/ /\ last.type_name = "Advisory"
       /\ \/ last.name = "unixDateWithdrawn" /\ last.ctx.advisory.withdrawn = None
          \/ last.name = "severity" /\ last.ctx.advisory.severity = None
          \/ last.name \in {"affectedArch", "affectedOs"} /\ last.ctx.advisory.affected = <<>>

\* C15: an optional property whose data is absent resolves to Null and never to an
\* error (Package.license without license, Advisory unixDateWithdrawn without
\* withdrawal, Advisory.severity without severity, Advisory affectedArch and
\* affectedOs without affected section), and the remaining vertices of the stream
\* are still resolved.
C15_AbsentDataIsNull ==
    /\ [](PulledProperty =>
             /\ ~last.panic
             /\ status = "running"
             /\ last.value = Null <=> AbsentData)
    /\ [][(last'.op = "pull_property" /\ last'.value = Null) =>
             /\ iters # <<>>
             /\ iters' = IF Len(iters[1].contexts) = 1 THEN <<>>
                         ELSE <<[iters[1] EXCEPT !.contexts = Tail(@)]>>]_vars

C15_Witness ==
    /\ PulledProperty
    /\ last.type_name = "Advisory"
    /\ last.name = "severity"
    /\ last.value = String("critical")
    /\ Len(frontier) = 2
    /\ last.ctx = frontier[2]
    /\ frontier[1].advisory.severity = None
    /\ frontier[1].advisory.withdrawn = None
    /\ frontier[1].advisory.affected = <<>>

PulledNeighbors(edge_name) ==
    /\ last.op = "pull"
    /\ last.name = edge_name
    /\ last.ctx # NoVertex

\* The URL of the package resolved last makes the URL resolver panic
UrlWithoutOwner ==
    /\ last.ctx.package.repository \in UrlsContainingGitHub
    /\ last.parsed.ok
    /\ last.parsed.host = "github.com"
    /\ last.parsed.owner = None

\* (GitHubRepository, owner) and (Advisory, affectedFunctions) answer an absence
\* with no neighbor and no error
OwnerAndFunctionsAbsences ==
    /\ PulledNeighbors("owner") =>
          /\ ~last.panic /\ status = "running"
          /\ last.ctx.repo.owner = None => last.vertices = <<>> /\ last.calls = <<>>
          /\ (last.ctx.repo.owner # None /\ last.found = <<>>) => last.vertices = <<>>
          /\ (last.ctx.repo.owner # None /\ last.found # <<>>) =>
                last.vertices = <<VGitHubUser(last.found[1])>>
    /\ PulledNeighbors("affectedFunctions") =>
          /\ ~last.panic /\ status = "running"
          /\ last.ctx.advisory.affected = <<>> => last.vertices = <<>>
          /\ last.ctx.advisory.affected # <<>> =>
                /\ Len(last.vertices) = Len(last.ctx.advisory.affected[1].functions)
                /\ \A i \in 1..Len(last.vertices) :
                      last.vertices[i].kind = "AffectedFunctionVersions"

\* C16: expected absences on edges produce an empty neighbor sequence and never an
\* error: (Package, repository) is empty when the package declares no repository
\* URL and otherwise has exactly one neighbor; (GitHubRepository, owner) is empty
\* when the repository has no owner or the user lookup returns nothing and
\* otherwise has exactly one neighbor; (Advisory, affectedFunctions) is empty when
\* the advisory has no affected section.
C16_AbsencesAreEmpty ==
    /\ PulledNeighbors("repository") =>
          /\ ~last.panic /\ status = "running"
          /\ last.ctx.package.repository = None => last.vertices = <<>>
          /\ last.ctx.package.repository # None => Len(last.vertices) = 1
    /\ OwnerAndFunctionsAbsences

\* C16, amended: (Package, repository) is empty, without error, when the package
\* declares no repository URL; otherwise it has exactly one neighbor, unless the URL
\* contains github.com and parses with host github.com and no owner, which aborts
\* the query. (GitHubRepository, owner) and (Advisory, affectedFunctions) are as
\* stated.
C16_AbsencesAreEmptyButOwnerlessUrl ==
    /\ PulledNeighbors("repository") =>
          /\ last.ctx.package.repository = None =>
                last.vertices = <<>> /\ ~last.panic /\ status = "running"
          /\ last.ctx.package.repository # None =>
                /\ last.panic <=> UrlWithoutOwner
                /\ ~last.panic => Len(last.vertices) = 1 /\ status = "running"
                /\ last.panic => last.vertices = <<>> /\ status = "panicked"
    /\ OwnerAndFunctionsAbsences

C16_Witness ==
    /\ PulledNeighbors("affectedFunctions")
    /\ last.ctx.advisory.affected = <<>>
    /\ last.vertices = <<>>
    /\ status = "running"
    /\ gh_client.repo_cache # {}
    /\ \E e \in gh_client.repo_cache : e.repo.owner = None

\* The step taken last asked for a combination the adapter does not match
Undeclared ==
    \/ last.op = "start" /\ last.name \notin {"RootPackage", "Dependencies"}
    \/ last.op = "resolve_property" /\ <<last.type_name, last.name>> \notin Properties
    \/ last.op = "resolve_neighbors" /\ <<last.type_name, last.name>> \notin Edges

\* C17: a combination the schema does not declare is fatal and never answered with
\* a value: a starting edge other than RootPackage or Dependencies, a (type,
\* property) pair resolve_property does not match and a (type, edge) pair
\* resolve_neighbors does not match each abort the query instead of returning an
\* empty sequence or a null.
C17_UndeclaredIsFatal ==
    /\ Undeclared =>
          /\ last.panic
          /\ status = "panicked"
          /\ iters = <<>>
          /\ last.vertices = <<>>
    /\ last.op = "pull_property" => <<last.type_name, last.name>> \in Properties
    /\ last.op = "pull" => <<last.type_name, last.name>> \in Edges
    /\ \A i \in 1..Len(iters) :
          /\ iters[i].op = "property" => <<iters[i].type_name, iters[i].name>> \in Properties
          /\ iters[i].op = "neighbors" => <<iters[i].type_name, iters[i].name>> \in Edges

C17_Witness ==
    /\ Undeclared
    /\ last.op = "start"
    /\ last.panic
    /\ status = "panicked"
    /\ created.advisory = 1
    /\ created.geiger = 1

\* C18: for every Package vertex the (Package, geiger) edge yields exactly one
\* GeigerUnsafety neighbor, looked up in the unsafe-usage client by the package's
\* (name, version); when the client has no record of that (name, version) the
\* query aborts instead of yielding an empty sequence.
C18_GeigerOneOrFatal ==
    PulledNeighbors("geiger") =>
        LET gid == <<last.ctx.package.name, last.ctx.package.version>> IN
        /\ geiger_client # <<>>
        /\ gid \in geiger_client[1].reports =>
              /\ ~last.panic
              /\ status = "running"
              /\ last.vertices = <<VGeigerUnsafety([name |-> gid[1], version |-> gid[2]])>>
        /\ gid \notin geiger_client[1].reports =>
              /\ last.panic
              /\ status = "panicked"
              /\ last.vertices = <<>>

C18_Witness ==
    /\ PulledNeighbors("geiger")
    /\ last.ctx.package.id = 1
    /\ <<PkgName(1), PkgVersion(1)>> \notin geiger_client[1].reports
    /\ <<PkgName(2), PkgVersion(2)>> \in geiger_client[1].reports
    /\ last.panic
    /\ status = "panicked"

\* What advisoryHistory returns for the context and the parameters of the step
\* taken last, without minSeverity
WithoutMinSeverity ==
    advisory_history(advisory_client[1], last.ctx.package,
                     [last.parameters EXCEPT !.minSeverity = None]).vertices

AtOrAboveMinSeverity(v) ==
    /\ v.advisory.severity # None
    /\ SeverityRank(v.advisory.severity) >= SeverityRank(last.parameters.minSeverity)

\* C19: minSeverity is an inclusive floor: advisoryHistory returns exactly those
\* otherwise-matching advisories whose severity is at or above minSeverity.
C19_MinSeverityFloor ==
    (PulledAdvisoryHistory /\ last.parameters.minSeverity # None) =>
        last.vertices = SelectSeq(WithoutMinSeverity, AtOrAboveMinSeverity)

\* C19, amended: minSeverity is an inclusive floor for the advisories that carry a
\* severity: advisoryHistory returns exactly those otherwise-matching advisories
\* whose severity is at or above minSeverity or that carry no severity.
C19_MinSeverityFloorOrUnrated ==
    (PulledAdvisoryHistory /\ last.parameters.minSeverity # None) =>
        LET Kept(v) == v.advisory.severity = None \/ AtOrAboveMinSeverity(v)
        IN  last.vertices = SelectSeq(WithoutMinSeverity, Kept)

C19_Witness ==
    /\ PulledAdvisoryHistory
    /\ last.parameters.minSeverity = "high"
    /\ ~last.parameters.includeWithdrawn
    /\ \E i, j \in 1..Len(remote_db) :
          /\ remote_db[i].package = last.ctx.package.name
          /\ remote_db[j].package = last.ctx.package.name
          /\ remote_db[i].severity = "medium"
          /\ remote_db[j].severity = "critical"
          /\ last.vertices = <<VAdvisory(remote_db[j])>>

\* C20: neighbor resolution is lazy per input vertex: the backend lookup for the
\* i-th input vertex (advisory query, get_repository, get_public_user, unsafety) is
\* made only when the engine pulls the i-th outcome of the sequence, so that no
\* lookup is ever made for the vertices of a sequence the engine stopped pulling.
C20_LookupOnlyOnPull ==
    [][/\ last'.op # "pull" =>
             /\ gh_client' = gh_client
             /\ last'.calls = <<>>
             /\ last'.found = <<>>
             /\ last'.op # "start" => last'.vertices = <<>> /\ frontier' = frontier
       /\ last'.op = "drop" =>
             /\ iters # <<>> /\ iters' = <<>>
             /\ last'.ctx = IF iters[1].contexts = <<>> THEN NoVertex
                            ELSE Head(iters[1].contexts)
       /\ last'.op = "pull" =>
             /\ iters # <<>>
             /\ last'.ctx = Head(iters[1].contexts)
             /\ iters' = IF Len(iters[1].contexts) = 1 THEN <<>>
                         ELSE <<[iters[1] EXCEPT !.contexts = Tail(@)]>>
             /\ Len(last'.calls) <= 1
             /\ gh_client' # gh_client => last'.calls # <<>>
             /\ last'.calls # <<>> =>
                   /\ last'.ctx # NoVertex
                   /\ last'.name \in {"repository", "owner"}
                   /\ last'.name = "repository" =>
                         /\ last'.ctx.package.repository \in UrlsContainingGitHub
                         /\ last'.calls = <<GitHubRepositoryId(last'.parsed.owner,
                                                               last'.parsed.name)>>
                   /\ last'.name = "owner" => last'.calls = <<last'.ctx.repo.owner>>]_vars

C20_Witness ==
    /\ last.op = "drop"
    /\ last.name = "repository"
    /\ last.ctx = VPackage(packages[2])
    /\ last.ctx.package.repository = "https://github.com/acme/libfoo"
    /\ gh_client.repo_cache = {}
    /\ frontier = <<>>
    /\ created.advisory = 1

\* The id of a Package vertex is a key of both maps, and so is every id of its
\* dependency list
Indexed(v) ==
    v.kind = "Package" =>
        /\ v.package.id \in DOMAIN packages
        /\ v.package.id \in DOMAIN direct_dependencies
        /\ packages[v.package.id] = v.package
        /\ \A i \in 1..Len(direct_dependencies[v.package.id]) :
              direct_dependencies[v.package.id][i] \in DOMAIN packages

\* C21: index lookups never fail for ids the index itself produced: from any vertex
\* returned by RootPackage or Dependencies, following (Package, dependencies) any
\* number of times, every lookup of a package id in direct_dependencies and of a
\* dependency id in packages succeeds, so that the panic of get_dependencies and of
\* the missing package is unreachable.
C21_IndexLookupsSucceed ==
    /\ \A i \in 1..Len(frontier) : Indexed(frontier[i])
    /\ \A i \in 1..Len(iters) : \A j \in 1..Len(iters[i].contexts) :
          Indexed(iters[i].contexts[j])
    /\ (last.op = "pull" /\ last.name = "dependencies") =>
          /\ ~last.panic
          /\ status = "running"
          /\ Indexed(last.ctx)
    /\ (last.op = "start" /\ last.panic) =>
          \/ last.name \notin {"RootPackage", "Dependencies"}
          \/ metadata.root = NoRoot /\ last.name = "RootPackage"
          \/ metadata.root = NoRoot /\ last.name = "Dependencies"
                                    /\ ~last.parameters.includeRoot

C21_Witness ==
    /\ PulledDependencies
    /\ metadata.root # NoRoot
    /\ last.ctx.package.id # metadata.root
    /\ Len(last.vertices) = 2
    /\ \E i \in 1..2 : last.vertices[i].package.id = metadata.root
    /\ \E i \in 1..2 : direct_dependencies[last.vertices[i].package.id] = <<>>
    /\ status = "running"

\* The sequences of both edges are open, and each has a context on which its closure
\* borrows the client
BothBorrowAhead ==
    /\ \E j \in 1..Len(iters) :
          /\ iters[j].name = "repository"
          /\ \E k \in 1..Len(iters[j].contexts), parsed \in GitUrlResults :
                ReachesGetRepository(iters[j].contexts[k], parsed)
    /\ \E j \in 1..Len(iters) :
          /\ iters[j].name = "owner"
          /\ \E k \in 1..Len(iters[j].contexts) : ReachesGetPublicUser(iters[j].contexts[k])

\* C22: the shared client is never mutably borrowed while another borrow of it is
\* active: in every interleaving of the pulls of the (Package, repository) and
\* (GitHubRepository, owner) sequences, at most one guard is alive, it is alive only
\* inside the closure call that took it, it is released before the next borrow_mut,
\* and no borrow_mut panics as already borrowed.
C22_NoOverlappingBorrow ==
    /\ gh_borrow \in {0, 1}
    /\ gh_borrow = 1 <=> holder # NoCall
    /\ holder # NoCall => Open(holder.i, "neighbors", iters[holder.i].name)
    /\ last.op = "borrow_mut" => ~last.panic /\ status = "running" /\ gh_borrow = 1
    /\ (last.op = "pull" /\ last.name \in {"repository", "owner"}) => gh_borrow = 0

C22_Witness ==
    /\ last.op = "borrow_mut"
    /\ last.name = "owner"
    /\ gh_borrow = 1
    /\ gh_client.repo_cache # {}
    /\ gh_client.user_cache # {}
    /\ BothBorrowAhead

\* C23: for every package and every filter combination, the advisoryHistory result
\* holds each matching advisory at most once, includeWithdrawn = true included, where
\* the result is the query result followed by the withdrawn-only query result.
C23_EachAdvisoryOnce ==
    PulledAdvisoryHistory =>
        \A i, j \in 1..Len(last.vertices) :
            last.vertices[i].advisory.id = last.vertices[j].advisory.id => i = j


====
